---- MODULE Spec2Model ----
(***************************************************************************)
(* Model of WebHookService                                                 *)
(* (Services/Services_bases/webhook_service/webhook_service.py).           *)
(*                                                                         *)
(* Two threads are modelled: the foreground thread, which calls            *)
(* subscribe_feed(), start_webhooks() and stop(), and the background       *)
(* thread launched by start_webhooks(), which runs _start_server() and,    *)
(* once inside serve_forever(), the flask route webhook().  Every          *)
(* statement of start_webhooks(), stop() and _start_server() that reads or *)
(* writes a shared attribute is one step, so the two threads interleave    *)
(* between any two such statements.  Python's None/True/False values of    *)
(* self.connected are the strings "None"/"True"/"False".                   *)
(***************************************************************************)
EXTENDS Integers, Sequences, FiniteSets, TLC

\* WebHookService.CONNECTION_TIMEOUT, in seconds.
CONNECTION_TIMEOUT == 3

\* Last value of the clock read by time.time(); the clock stops there.
MaxClock == 5

\* Number of start_webhooks() calls followed.
MaxStarts == 2

\* Feed names passed to subscribe_feed() and found in request paths.
FeedNames == {"f1", "f2"}

\* Feed callbacks passed to subscribe_feed().
Handlers == {"h1", "h2"}

\* Authentication callbacks passed to subscribe_feed().
AuthCallbacks == {"authA", "authB"}

\* Request bodies, as returned by request.get_data(as_text=True).
Bodies == {"A", "B"}

\* HTTP methods of the requests received on /webhook/<webhook_name>.
Methods == {"POST", "GET"}

\* URLs ngrok.connect() can return.
Urls == {"http://u1", "http://u2"}

\* An authentication callback applied to a request body: authA accepts the
\* body "A" only and authB the body "B" only.
Auth(auth_callback, data) ==
    \/ auth_callback = "authA" /\ data = "A"
    \/ auth_callback = "authB" /\ data = "B"

VARIABLES
    webhook_app,                 \* "None" or "Flask"
    webhook_server,              \* "None" or "WSGIServer"
    connected,                   \* "None", "True" or "False"
    ngrok_public_url,
    webhook_public_url,
    service_feed_webhooks,       \* feed name -> feed callback
    service_feed_auth_callbacks, \* feed name -> authentication callback
    pcF,                         \* the foreground thread's position
    pcB,                         \* the background thread's position
    stop_caller,                 \* who called the stop() in progress
    now,                         \* the clock time.time() reads
    start_time,                  \* start_webhooks' local start_time
    timeout,                     \* start_webhooks' local timeout
    listener,                    \* the WSGI server: "none", "created", "serving", "stopped"
    tunnels,                     \* the URLs of the tunnels the ngrok process keeps open
    routes,                      \* TRUE once _load_webhook_routes() has run
    returns,                     \* the values start_webhooks() has returned, in order
    raised,                      \* the exception the last subscribe_feed() raised, or "none"
    exc,                         \* the exception self.connect() raised in _start_server, or "none"
    bind_failed,                 \* TRUE once WSGIServer() has raised OSError
    threads,                     \* number of background threads launched
    status_at_timeout,           \* self.connected when start_webhooks took its timeout branch, or "no"
    connect_time,                \* the clock when self.connect() returned a URL, or -1
    lastReq                      \* the last request received and what webhook() did with it

vars == <<webhook_app, webhook_server, connected, ngrok_public_url,
          webhook_public_url, service_feed_webhooks,
          service_feed_auth_callbacks, pcF, pcB, stop_caller, now, start_time,
          timeout, listener, tunnels, routes, returns, raised, exc,
          bind_failed, threads, status_at_timeout, connect_time, lastReq>>

\* The attributes and locals only the lifecycle (start/stop/_start_server) touches.
lifecycle == <<webhook_app, webhook_server, connected, ngrok_public_url,
               webhook_public_url, pcF, pcB, stop_caller, start_time, timeout,
               listener, tunnels, routes, returns, exc, bind_failed, threads,
               status_at_timeout, connect_time>>

registry == <<service_feed_webhooks, service_feed_auth_callbacks>>

NoRequest == [name |-> "", method |-> "", data |-> "", status |-> 0,
              body |-> "", calls |-> <<>>]

\* WebHookService.__init__
Init ==
    /\ webhook_app = "None"
    /\ webhook_server = "None"
    /\ connected = "None"
    /\ ngrok_public_url = ""
    /\ webhook_public_url = ""
    /\ service_feed_webhooks = << >>
    /\ service_feed_auth_callbacks = << >>
    /\ pcF = "idle"
    /\ pcB = "unborn"
    /\ stop_caller = "none"
    /\ now = 0
    /\ start_time = 0
    /\ timeout = FALSE
    /\ listener = "none"
    /\ tunnels = {}
    /\ routes = FALSE
    /\ returns = << >>
    /\ raised = "none"
    /\ exc = "none"
    /\ bind_failed = FALSE
    /\ threads = 0
    /\ status_at_timeout = "no"
    /\ connect_time = -1
    /\ lastReq = NoRequest

----------------------------------------------------------------------------
\* The feed registry.

is_subscribed(feed_name) == feed_name \in DOMAIN service_feed_webhooks

get_subscribe_url(service_feed_name) ==
    webhook_public_url \o "/" \o service_feed_name

\* m with key k bound to v (a Python dict assignment).
DictSet(m, k, v) == [x \in DOMAIN m \cup {k} |-> IF x = k THEN v ELSE m[x]]

\* subscribe_feed without its membership test: a second subscription
\* replaces the first.
subscribe_feed_overwriting(service_feed_name, service_feed_callback, auth_callback) ==
    /\ service_feed_webhooks' =
           DictSet(service_feed_webhooks, service_feed_name,
                   service_feed_callback)
    /\ service_feed_auth_callbacks' =
           DictSet(service_feed_auth_callbacks, service_feed_name,
                   auth_callback)
    /\ raised' = "none"
    /\ UNCHANGED <<lifecycle, now, lastReq>>

subscribe_feed(service_feed_name, service_feed_callback, auth_callback) ==
    /\ IF service_feed_name \notin DOMAIN service_feed_webhooks
       THEN /\ service_feed_webhooks' =
                   DictSet(service_feed_webhooks, service_feed_name,
                           service_feed_callback)
            /\ service_feed_auth_callbacks' =
                   DictSet(service_feed_auth_callbacks, service_feed_name,
                           auth_callback)
            /\ raised' = "none"
       ELSE /\ raised' = "KeyError"
            /\ UNCHANGED registry
    /\ UNCHANGED <<lifecycle, now, lastReq>>

\* A call of subscribe_feed() with arguments from the given sets.
Subscribe(names, callbacks, auth_callbacks) ==
    \E n \in names, h \in callbacks, a \in auth_callbacks :
        subscribe_feed(n, h, a)

----------------------------------------------------------------------------
\* The request router.

\* One call of a registered callback, as webhook() makes it.
Call(kind, callback, data) == [kind |-> kind, callback |-> callback, data |-> data]

\* webhook() calling the feed callback without looking at what the
\* authentication callback returned.
webhook_unauthenticated(feed_webhooks, auth_callbacks, webhook_name, method, data) ==
    IF webhook_name \in DOMAIN feed_webhooks
    THEN IF method = "POST"
         THEN [status |-> 200, body |-> "",
               calls |-> << Call("auth", auth_callbacks[webhook_name], data),
                            Call("feed", feed_webhooks[webhook_name], data) >>]
         ELSE [status |-> 400, body |-> "", calls |-> << >>]
    ELSE [status |-> 500, body |-> "", calls |-> << >>]

\* webhook() answering 403 when the authentication callback rejects the body.
webhook_forbidding(feed_webhooks, auth_callbacks, webhook_name, method, data) ==
    IF webhook_name \in DOMAIN feed_webhooks
    THEN IF method = "POST"
         THEN IF Auth(auth_callbacks[webhook_name], data)
              THEN [status |-> 200, body |-> "",
                    calls |-> << Call("auth", auth_callbacks[webhook_name], data),
                                 Call("feed", feed_webhooks[webhook_name], data) >>]
              ELSE [status |-> 403, body |-> "",
                    calls |-> << Call("auth", auth_callbacks[webhook_name], data) >>]
         ELSE [status |-> 400, body |-> "", calls |-> << >>]
    ELSE [status |-> 500, body |-> "", calls |-> << >>]

\* webhook() answering an unknown feed name with 404.
webhook_not_found(feed_webhooks, auth_callbacks, webhook_name, method, data) ==
    IF webhook_name \in DOMAIN feed_webhooks
    THEN IF method = "POST"
         THEN IF Auth(auth_callbacks[webhook_name], data)
              THEN [status |-> 200, body |-> "",
                    calls |-> << Call("auth", auth_callbacks[webhook_name], data),
                                 Call("feed", feed_webhooks[webhook_name], data) >>]
              ELSE [status |-> 200, body |-> "",
                    calls |-> << Call("auth", auth_callbacks[webhook_name], data) >>]
         ELSE [status |-> 400, body |-> "", calls |-> << >>]
    ELSE [status |-> 404, body |-> "", calls |-> << >>]

\* The view function webhook(webhook_name) of _load_webhook_routes, given the
\* two dicts of self it reads and the request's method and body: the
\* response's status and body and the callbacks called, in order.
\* abort(n) answers with status n.
webhook(feed_webhooks, auth_callbacks, webhook_name, method, data) ==
    IF webhook_name \in DOMAIN feed_webhooks
    THEN IF method = "POST"
         THEN IF Auth(auth_callbacks[webhook_name], data)
              THEN [status |-> 200, body |-> "",
                    calls |-> << Call("auth", auth_callbacks[webhook_name], data),
                                 Call("feed", feed_webhooks[webhook_name], data) >>]
              ELSE [status |-> 200, body |-> "",
                    calls |-> << Call("auth", auth_callbacks[webhook_name], data) >>]
         ELSE [status |-> 400, body |-> "", calls |-> << >>]
    ELSE [status |-> 500, body |-> "", calls |-> << >>]

\* The route '/webhook/<webhook_name>' as registered with methods=['POST']:
\* flask answers a request of any other method with 405 (Method Not Allowed)
\* and does not call the view function.
route_webhook(feed_webhooks, auth_callbacks, webhook_name, method, data) ==
    IF method \in {"POST"}
    THEN webhook(feed_webhooks, auth_callbacks, webhook_name, method, data)
    ELSE [status |-> 405, body |-> "", calls |-> << >>]

\* The listener receives a request on /webhook/<webhook_name> while the
\* background thread is inside serve_forever().
Request(webhook_name, method, data) ==
    /\ pcB = "serving"
    /\ listener = "serving"
    /\ routes
    /\ LET r == route_webhook(service_feed_webhooks, service_feed_auth_callbacks,
                               webhook_name, method, data)
       IN  lastReq' = [name |-> webhook_name, method |-> method, data |-> data,
                       status |-> r.status, body |-> r.body, calls |-> r.calls]
    /\ UNCHANGED <<lifecycle, registry, now, raised>>

\* A request with a name, a method and a body from the given sets.
Receive(names, methods, bodies) ==
    \E n \in names, m \in methods, d \in bodies : Request(n, m, d)

----------------------------------------------------------------------------
\* The clock.  start_webhooks() reads it at lines 188 and 192 only, so only
\* the time that passes between those reads is followed.

Tick ==
    /\ now < MaxClock
    /\ pcF \in {"while", "sleep"}
    /\ now' = now + 1
    /\ UNCHANGED <<lifecycle, registry, raised, lastReq>>

----------------------------------------------------------------------------
\* The foreground thread: start_webhooks() and stop().

\* start_webhooks without the test of line 183: every call launches a thread.
start_webhooks_call_relaunching ==
    /\ pcF = "idle"
    /\ Len(returns) < MaxStarts
    /\ pcB \in {"unborn", "serving", "done"}
    /\ webhook_app' = "Flask"
    /\ threads' = threads + 1
    /\ pcB' = "prepare"
    /\ pcF' = "start_time"
    /\ UNCHANGED returns
    /\ UNCHANGED <<webhook_server, connected, ngrok_public_url,
                   webhook_public_url, stop_caller, start_time, timeout,
                   listener, tunnels, routes, exc, bind_failed,
                   status_at_timeout, connect_time, registry, now, raised,
                   lastReq>>

\* start_webhooks, lines 183-187 and 198: the first call creates the flask app
\* and launches the thread; any later call returns True.
start_webhooks_call ==
    /\ pcF = "idle"
    /\ Len(returns) < MaxStarts
    /\ IF webhook_app = "None"
       THEN /\ webhook_app' = "Flask"
            /\ threads' = threads + 1
            /\ pcB' = "prepare"
            /\ pcF' = "start_time"
            /\ UNCHANGED returns
       ELSE /\ returns' = Append(returns, TRUE)
            /\ UNCHANGED <<webhook_app, threads, pcB, pcF>>
    /\ UNCHANGED <<webhook_server, connected, ngrok_public_url,
                   webhook_public_url, stop_caller, start_time, timeout,
                   listener, tunnels, routes, exc, bind_failed,
                   status_at_timeout, connect_time, registry, now, raised,
                   lastReq>>

\* start_webhooks, lines 188-189.
start_webhooks_start_time ==
    /\ pcF = "start_time"
    /\ start_time' = now
    /\ timeout' = FALSE
    /\ pcF' = "while"
    /\ UNCHANGED <<webhook_app, webhook_server, connected, ngrok_public_url,
                   webhook_public_url, pcB, stop_caller, listener, tunnels,
                   routes, returns, exc, bind_failed, threads,
                   status_at_timeout, connect_time, registry, now, raised,
                   lastReq>>

\* start_webhooks, line 190: the loop's test.
start_webhooks_while ==
    /\ pcF = "while"
    /\ pcF' = IF connected = "None" /\ ~timeout THEN "sleep" ELSE "if_timeout"
    /\ UNCHANGED <<webhook_app, webhook_server, connected, ngrok_public_url,
                   webhook_public_url, pcB, stop_caller, start_time, timeout,
                   listener, tunnels, routes, returns, exc, bind_failed,
                   threads, status_at_timeout, connect_time, registry, now,
                   raised, lastReq>>

\* Lines 191-192 without the timeout test: the loop only sleeps.
start_webhooks_sleep_untimed ==
    /\ pcF = "sleep"
    /\ timeout' = FALSE
    /\ pcF' = "while"
    /\ UNCHANGED <<webhook_app, webhook_server, connected, ngrok_public_url,
                   webhook_public_url, pcB, stop_caller, start_time, listener,
                   tunnels, routes, returns, exc, bind_failed, threads,
                   status_at_timeout, connect_time, registry, now, raised,
                   lastReq>>

\* start_webhooks, lines 191-192: the sleep, then the timeout test.
start_webhooks_sleep ==
    /\ pcF = "sleep"
    /\ timeout' = (now - start_time > CONNECTION_TIMEOUT)
    /\ pcF' = "while"
    /\ UNCHANGED <<webhook_app, webhook_server, connected, ngrok_public_url,
                   webhook_public_url, pcB, stop_caller, start_time, listener,
                   tunnels, routes, returns, exc, bind_failed, threads,
                   status_at_timeout, connect_time, registry, now, raised,
                   lastReq>>

\* start_webhooks, lines 193-195: on timeout, log and call stop().
start_webhooks_if_timeout ==
    /\ pcF = "if_timeout"
    /\ IF timeout
       THEN /\ pcF' = "stop_kill"
            /\ stop_caller' = "start_webhooks"
            /\ status_at_timeout' = connected
       ELSE /\ pcF' = "return"
            /\ UNCHANGED <<stop_caller, status_at_timeout>>
    /\ UNCHANGED <<webhook_app, webhook_server, connected, ngrok_public_url,
                   webhook_public_url, pcB, start_time, timeout, listener,
                   tunnels, routes, returns, exc, bind_failed, threads,
                   connect_time, registry, now, raised, lastReq>>

\* Line 196 resetting self.connected to None instead of False.
start_webhooks_force_resetting ==
    /\ pcF = "force"
    /\ connected' = "None"
    /\ pcF' = "return"
    /\ UNCHANGED <<webhook_app, webhook_server, ngrok_public_url,
                   webhook_public_url, pcB, stop_caller, start_time, timeout,
                   listener, tunnels, routes, returns, exc, bind_failed,
                   threads, status_at_timeout, connect_time, registry, now,
                   raised, lastReq>>

\* start_webhooks, line 196.
start_webhooks_force ==
    /\ pcF = "force"
    /\ connected' = "False"
    /\ pcF' = "return"
    /\ UNCHANGED <<webhook_app, webhook_server, ngrok_public_url,
                   webhook_public_url, pcB, stop_caller, start_time, timeout,
                   listener, tunnels, routes, returns, exc, bind_failed,
                   threads, status_at_timeout, connect_time, registry, now,
                   raised, lastReq>>

\* start_webhooks, line 197.
start_webhooks_return ==
    /\ pcF = "return"
    /\ returns' = Append(returns, connected = "True")
    /\ pcF' = "idle"
    /\ UNCHANGED <<webhook_app, webhook_server, connected, ngrok_public_url,
                   webhook_public_url, pcB, stop_caller, start_time, timeout,
                   listener, tunnels, routes, exc, bind_failed, threads,
                   status_at_timeout, connect_time, registry, now, raised,
                   lastReq>>

\* A call of stop() by the service's user.
stop_call ==
    /\ pcF = "idle"
    /\ pcF' = "stop_kill"
    /\ stop_caller' = "user"
    /\ UNCHANGED <<webhook_app, webhook_server, connected, ngrok_public_url,
                   webhook_public_url, pcB, start_time, timeout, listener,
                   tunnels, routes, returns, exc, bind_failed, threads,
                   status_at_timeout, connect_time, registry, now, raised,
                   lastReq>>

\* stop, line 207: ngrok.kill() ends the ngrok process and its tunnels.
stop_kill ==
    /\ pcF = "stop_kill"
    /\ tunnels' = {}
    /\ pcF' = "stop_server"
    /\ UNCHANGED <<webhook_app, webhook_server, connected, ngrok_public_url,
                   webhook_public_url, pcB, stop_caller, start_time, timeout,
                   listener, routes, returns, exc, bind_failed, threads,
                   status_at_timeout, connect_time, registry, now, raised,
                   lastReq>>

\* stop dropping the server it has signalled (self.webhook_server = None).
stop_server_clearing ==
    /\ pcF = "stop_server"
    /\ listener' = IF webhook_server # "None" THEN "stopped" ELSE listener
    /\ webhook_server' = "None"
    /\ pcF' = IF stop_caller = "start_webhooks" THEN "force" ELSE "idle"
    /\ stop_caller' = "none"
    /\ UNCHANGED <<webhook_app, connected, ngrok_public_url,
                   webhook_public_url, pcB, start_time, timeout, tunnels,
                   routes, returns, exc, bind_failed, threads,
                   status_at_timeout, connect_time, registry, now, raised,
                   lastReq>>

\* stop without the test of line 208: the server is signalled whether or not
\* self.webhook_server is set.
stop_server_untested ==
    /\ pcF = "stop_server"
    /\ listener' = "stopped"
    /\ pcF' = IF stop_caller = "start_webhooks" THEN "force" ELSE "idle"
    /\ stop_caller' = "none"
    /\ UNCHANGED <<webhook_app, webhook_server, connected, ngrok_public_url,
                   webhook_public_url, pcB, start_time, timeout, tunnels,
                   routes, returns, exc, bind_failed, threads,
                   status_at_timeout, connect_time, registry, now, raised,
                   lastReq>>

\* stop, lines 208-209, and the return to the caller.
stop_server ==
    /\ pcF = "stop_server"
    /\ listener' = IF webhook_server # "None" THEN "stopped" ELSE listener
    /\ pcF' = IF stop_caller = "start_webhooks" THEN "force" ELSE "idle"
    /\ stop_caller' = "none"
    /\ UNCHANGED <<webhook_app, webhook_server, connected, ngrok_public_url,
                   webhook_public_url, pcB, start_time, timeout, tunnels,
                   routes, returns, exc, bind_failed, threads,
                   status_at_timeout, connect_time, registry, now, raised,
                   lastReq>>

----------------------------------------------------------------------------
\* The background thread: _start_server().

\* _prepare_webhook_server, lines 119-128 (called at line 169): the server is
\* created, or WSGIServer() raises OSError, which is caught there.
prepare_webhook_server ==
    /\ pcB = "prepare"
    /\ \/ /\ webhook_server' = "WSGIServer"
          /\ listener' = "created"
          /\ UNCHANGED bind_failed
       \/ /\ webhook_server' = "None"
          /\ bind_failed' = TRUE
          /\ UNCHANGED listener
    /\ pcB' = "routes"
    /\ UNCHANGED <<webhook_app, connected, ngrok_public_url,
                   webhook_public_url, pcF, stop_caller, start_time, timeout,
                   tunnels, routes, returns, exc, threads, status_at_timeout,
                   connect_time, registry, now, raised, lastReq>>

\* _start_server, line 170: _load_webhook_routes() registers the routes.
load_webhook_routes ==
    /\ pcB = "routes"
    /\ routes' = TRUE
    /\ pcB' = "connect"
    /\ UNCHANGED <<webhook_app, webhook_server, connected, ngrok_public_url,
                   webhook_public_url, pcF, stop_caller, start_time, timeout,
                   listener, tunnels, returns, exc, bind_failed, threads,
                   status_at_timeout, connect_time, registry, now, raised,
                   lastReq>>

\* _start_server, line 171: self.connect() opens a tunnel and returns its URL.
connect_returns(url) ==
    /\ pcB = "connect"
    /\ ngrok_public_url' = url
    /\ tunnels' = tunnels \cup {url}
    /\ connect_time' = now
    /\ pcB' = "set_url"
    /\ UNCHANGED <<webhook_app, webhook_server, connected, webhook_public_url,
                   pcF, stop_caller, start_time, timeout, listener, routes,
                   returns, exc, bind_failed, threads, status_at_timeout,
                   registry, now, raised, lastReq>>

\* _start_server, lines 171 and 176-179: self.connect() raises; the handler
\* logs the exception and control reaches line 180.
connect_raises(e) ==
    /\ pcB = "connect"
    /\ exc' = e
    /\ pcB' = "final"
    /\ UNCHANGED <<webhook_app, webhook_server, connected, ngrok_public_url,
                   webhook_public_url, pcF, stop_caller, start_time, timeout,
                   listener, tunnels, routes, returns, bind_failed, threads,
                   status_at_timeout, connect_time, registry, now, raised,
                   lastReq>>

Connect ==
    \/ \E u \in Urls : connect_returns(u)
    \/ \E e \in {"PyngrokNgrokError", "Exception"} : connect_raises(e)

\* _start_server, line 172.
set_webhook_public_url ==
    /\ pcB = "set_url"
    /\ webhook_public_url' = ngrok_public_url \o "/webhook"
    /\ pcB' = "if_server"
    /\ UNCHANGED <<webhook_app, webhook_server, connected, ngrok_public_url,
                   pcF, stop_caller, start_time, timeout, listener, tunnels,
                   routes, returns, exc, bind_failed, threads,
                   status_at_timeout, connect_time, registry, now, raised,
                   lastReq>>

\* Line 173 without its test: self.connected is set whether or not the
\* server was created.
if_webhook_server_untested ==
    /\ pcB = "if_server"
    /\ pcB' = "set_connected"
    /\ UNCHANGED <<webhook_app, webhook_server, connected, ngrok_public_url,
                   webhook_public_url, pcF, stop_caller, start_time, timeout,
                   listener, tunnels, routes, returns, exc, bind_failed,
                   threads, status_at_timeout, connect_time, registry, now,
                   raised, lastReq>>

\* _start_server, line 173.
if_webhook_server ==
    /\ pcB = "if_server"
    /\ pcB' = IF webhook_server # "None" THEN "set_connected" ELSE "final"
    /\ UNCHANGED <<webhook_app, webhook_server, connected, ngrok_public_url,
                   webhook_public_url, pcF, stop_caller, start_time, timeout,
                   listener, tunnels, routes, returns, exc, bind_failed,
                   threads, status_at_timeout, connect_time, registry, now,
                   raised, lastReq>>

\* _start_server, line 174.
set_connected ==
    /\ pcB = "set_connected"
    /\ connected' = "True"
    /\ pcB' = "serve"
    /\ UNCHANGED <<webhook_app, webhook_server, ngrok_public_url,
                   webhook_public_url, pcF, stop_caller, start_time, timeout,
                   listener, tunnels, routes, returns, exc, bind_failed,
                   threads, status_at_timeout, connect_time, registry, now,
                   raised, lastReq>>

\* _start_server, line 175: serve_forever() starts serving, also when stop()
\* has already been signalled to the server (the server starts again).
serve_forever ==
    /\ pcB = "serve"
    /\ listener' = "serving"
    /\ pcB' = "serving"
    /\ UNCHANGED <<webhook_app, webhook_server, connected, ngrok_public_url,
                   webhook_public_url, pcF, stop_caller, start_time, timeout,
                   tunnels, routes, returns, exc, bind_failed, threads,
                   status_at_timeout, connect_time, registry, now, raised,
                   lastReq>>

\* _start_server, line 175: serve_forever() returns at once, which it may do
\* when stop() has already been signalled to the server.
serve_forever_stopped ==
    /\ pcB = "serve"
    /\ listener = "stopped"
    /\ pcB' = "final"
    /\ UNCHANGED listener
    /\ UNCHANGED <<webhook_app, webhook_server, connected, ngrok_public_url,
                   webhook_public_url, pcF, stop_caller, start_time, timeout,
                   tunnels, routes, returns, exc, bind_failed, threads,
                   status_at_timeout, connect_time, registry, now, raised,
                   lastReq>>

\* _start_server, line 175: serve_forever() returns once stop() has been
\* signalled to the serving server.
serve_forever_returns ==
    /\ pcB = "serving"
    /\ listener = "stopped"
    /\ pcB' = "final"
    /\ UNCHANGED <<webhook_app, webhook_server, connected, ngrok_public_url,
                   webhook_public_url, pcF, stop_caller, start_time, timeout,
                   listener, tunnels, routes, returns, exc, bind_failed,
                   threads, status_at_timeout, connect_time, registry, now,
                   raised, lastReq>>

\* Line 180 left out: the thread ends without writing self.connected.
set_not_connected_skipped ==
    /\ pcB = "final"
    /\ pcB' = "done"
    /\ UNCHANGED <<webhook_app, webhook_server, connected, ngrok_public_url,
                   webhook_public_url, pcF, stop_caller, start_time, timeout,
                   listener, tunnels, routes, returns, exc, bind_failed,
                   threads, status_at_timeout, connect_time, registry, now,
                   raised, lastReq>>

\* _start_server, line 180; the thread ends.
set_not_connected ==
    /\ pcB = "final"
    /\ connected' = "False"
    /\ pcB' = "done"
    /\ UNCHANGED <<webhook_app, webhook_server, ngrok_public_url,
                   webhook_public_url, pcF, stop_caller, start_time, timeout,
                   listener, tunnels, routes, returns, exc, bind_failed,
                   threads, status_at_timeout, connect_time, registry, now,
                   raised, lastReq>>

----------------------------------------------------------------------------

\* The inputs of the feed registry and of the router followed together with
\* every interleaving of the lifecycle.
OneFeed == {"f1"}
OneHandler == {"h1"}
OneAuth == {"authA"}

Next ==
    \/ Subscribe(OneFeed, OneHandler, OneAuth)
    \/ Receive(OneFeed, {"POST"}, Bodies)
    \/ Tick
    \/ start_webhooks_call
    \/ start_webhooks_start_time
    \/ start_webhooks_while
    \/ start_webhooks_sleep
    \/ start_webhooks_if_timeout
    \/ start_webhooks_force
    \/ start_webhooks_return
    \/ stop_call
    \/ stop_kill
    \/ stop_server
    \/ prepare_webhook_server
    \/ load_webhook_routes
    \/ Connect
    \/ set_webhook_public_url
    \/ if_webhook_server
    \/ set_connected
    \/ serve_forever
    \/ serve_forever_stopped
    \/ serve_forever_returns
    \/ set_not_connected

\* The service with both threads, the clock and stop().
Spec == Init /\ [][Next]_vars

\* The steps of the foreground thread once it has entered start_webhooks() or
\* stop().
Foreground ==
    \/ start_webhooks_start_time
    \/ start_webhooks_while
    \/ start_webhooks_sleep
    \/ start_webhooks_if_timeout
    \/ start_webhooks_force
    \/ start_webhooks_return
    \/ stop_kill
    \/ stop_server

\* The steps of the background thread.
Background ==
    \/ prepare_webhook_server
    \/ load_webhook_routes
    \/ Connect
    \/ set_webhook_public_url
    \/ if_webhook_server
    \/ set_connected
    \/ serve_forever
    \/ serve_forever_stopped
    \/ serve_forever_returns
    \/ set_not_connected

\* The service when the clock advances and the foreground thread, once in
\* start_webhooks() or stop(), keeps running; the background thread may stop
\* anywhere (self.connect() may never return).
SpecForeground == Spec /\ WF_vars(Tick) /\ WF_vars(Foreground)

\* The service when, besides, the background thread keeps running.
SpecFair == SpecForeground /\ WF_vars(Background)

\* The feed registry and the router on every input, with the service started
\* and left running: the clock does not advance during the handshake and
\* stop() is not called.
NextFeeds ==
    \/ Subscribe(FeedNames, Handlers, AuthCallbacks)
    \/ Receive(FeedNames, Methods, Bodies)
    \/ start_webhooks_call
    \/ start_webhooks_start_time
    \/ start_webhooks_while
    \/ start_webhooks_sleep
    \/ start_webhooks_if_timeout
    \/ start_webhooks_return
    \/ prepare_webhook_server
    \/ load_webhook_routes
    \/ Connect
    \/ set_webhook_public_url
    \/ if_webhook_server
    \/ set_connected
    \/ serve_forever
    \/ set_not_connected

SpecFeeds == Init /\ [][NextFeeds]_vars

----------------------------------------------------------------------------
\* Properties of start_webhooks().

\* A step in which a call of start_webhooks() returns.
Returned == Len(returns') = Len(returns) + 1

\* C1: every call of start_webhooks(), the first one and any repeat call,
\* returns True if and only if self.connected is True when it returns.
C1_ReturnsTrueIffConnected ==
    [][Returned => (returns'[Len(returns')] <=> connected' = "True")]_vars

\* C2: when the timeout elapses while self.connected is still None, the
\* first call of start_webhooks() returns False and leaves self.connected
\* False, whatever the background thread does meanwhile.
C2_TimeoutLeavesFailed ==
    [][(Returned /\ Len(returns) = 0 /\ status_at_timeout = "None")
          => (returns'[1] = FALSE /\ connected' = "False")]_vars

\* C3: when the server was created and self.connect() returned a URL u no
\* later than CONNECTION_TIMEOUT after start_time, the first call of
\* start_webhooks() returns True; and whenever self.connected is True the
\* public URL is u + "/webhook" and get_subscribe_url(name) is
\* u + "/webhook/" + name.
C3_StartSucceeds ==
    /\ (/\ webhook_server # "None"
        /\ connect_time >= 0
        /\ connect_time - start_time <= CONNECTION_TIMEOUT
        /\ Len(returns) >= 1)
           => returns[1] = TRUE
    /\ connected = "True" =>
           /\ ngrok_public_url \in Urls
           /\ webhook_public_url = ngrok_public_url \o "/webhook"
           /\ \A n \in FeedNames :
                  get_subscribe_url(n) = ngrok_public_url \o "/webhook/" \o n

\* C4: when WSGIServer() raised OSError, self.connected never becomes True,
\* the server never serves, and the first call of start_webhooks() returns
\* False with self.connected False.
C4_BindFailureFails ==
    bind_failed =>
        /\ connected # "True"
        /\ webhook_server = "None"
        /\ listener # "serving"
        /\ Len(returns) >= 1 => (returns[1] = FALSE /\ connected = "False")

C4_Witness ==
    /\ bind_failed
    /\ Len(returns) >= 1
    /\ returns[1] = FALSE
    /\ connected = "False"

\* C5: when self.connect() raised PyngrokNgrokError or any other exception,
\* the background thread never reaches serve_forever() and ends with
\* self.connected False, and the first call of start_webhooks() returns False.
C5_TunnelFailureFails ==
    exc # "none" =>
        /\ pcB \in {"final", "done"}
        /\ listener # "serving"
        /\ connected # "True"
        /\ pcB = "done" => connected = "False"
        /\ Len(returns) >= 1 => returns[1] = FALSE

C5_Witness ==
    /\ exc = "PyngrokNgrokError"
    /\ pcB = "done"
    /\ connected = "False"
    /\ Len(returns) >= 1
    /\ returns[1] = FALSE

----------------------------------------------------------------------------
\* Properties of the feed registry and of the router.

\* C6: subscribe_feed(name, handler, auth) on a registered name raises
\* KeyError and leaves both dicts unchanged; on a new name it adds the
\* handler and the authenticator under that name and changes nothing else.
\* Both dicts always have the same keys, and is_subscribed changes only by a
\* subscribe_feed call, for the name it registers.
C6_SubscribeFeed ==
    /\ [](DOMAIN service_feed_webhooks = DOMAIN service_feed_auth_callbacks)
    /\ [][\A n \in FeedNames, h \in Handlers, a \in AuthCallbacks :
            subscribe_feed(n, h, a) =>
                IF is_subscribed(n)
                THEN /\ raised' = "KeyError"
                     /\ service_feed_webhooks' = service_feed_webhooks
                     /\ service_feed_auth_callbacks' = service_feed_auth_callbacks
                ELSE /\ raised' = "none"
                     /\ service_feed_webhooks'[n] = h
                     /\ service_feed_auth_callbacks'[n] = a
                     /\ \A m \in FeedNames :
                            is_subscribed(m)' <=> (is_subscribed(m) \/ m = n)
                     /\ \A m \in DOMAIN service_feed_webhooks :
                            /\ service_feed_webhooks'[m] = service_feed_webhooks[m]
                            /\ service_feed_auth_callbacks'[m] =
                                   service_feed_auth_callbacks[m]]_vars
    /\ [][(\E n \in FeedNames : is_subscribed(n)' # is_subscribed(n))
             => \E n \in FeedNames, h \in Handlers, a \in AuthCallbacks :
                    subscribe_feed(n, h, a)]_vars

C6_Witness ==
    /\ raised = "KeyError"
    /\ DOMAIN service_feed_webhooks = FeedNames
    /\ service_feed_webhooks["f1"] # service_feed_webhooks["f2"]

\* The calls of feed callbacks among the calls of a request.
FeedCalls(calls) == SelectSeq(calls, LAMBDA c : c.kind = "feed")

\* C7: a POST to the name of a registered feed calls the feed's handler
\* exactly once, with the request body, when the feed's authenticator accepts
\* the body, and not at all when it rejects it; the feed's authenticator is
\* called first and no other feed's handler is called.
C7_AuthThenDispatch ==
    [][\A n \in FeedNames, d \in Bodies :
          (Request(n, "POST", d) /\ is_subscribed(n)) =>
              LET calls == lastReq'.calls
                  accepted == Auth(service_feed_auth_callbacks[n], d)
              IN  /\ Len(calls) >= 1
                  /\ calls[1] = Call("auth", service_feed_auth_callbacks[n], d)
                  /\ \A i \in 2..Len(calls) : calls[i].kind = "feed"
                  /\ accepted =>
                         FeedCalls(calls) = << Call("feed", service_feed_webhooks[n], d) >>
                  /\ ~accepted => FeedCalls(calls) = << >>]_vars

C7_Witness ==
    /\ lastReq.method = "POST"
    /\ lastReq.name = "f2"
    /\ DOMAIN service_feed_webhooks = FeedNames
    /\ service_feed_webhooks["f1"] # service_feed_webhooks["f2"]
    /\ lastReq.calls = << Call("auth", service_feed_auth_callbacks["f2"], lastReq.data),
                          Call("feed", service_feed_webhooks["f2"], lastReq.data) >>

\* C8: the response to a POST to the name of a registered feed is status 200
\* with an empty body, and is the response the same request gets with any
\* other authenticator registered for the feed.
C8_SameResponse ==
    [][\A n \in FeedNames, d \in Bodies :
          (Request(n, "POST", d) /\ is_subscribed(n)) =>
              /\ lastReq'.status = 200
              /\ lastReq'.body = ""
              /\ \A a \in AuthCallbacks :
                     LET other == route_webhook(
                                      service_feed_webhooks,
                                      DictSet(service_feed_auth_callbacks, n, a),
                                      n, "POST", d)
                     IN  /\ other.status = lastReq'.status
                         /\ other.body = lastReq'.body]_vars

C8_Witness ==
    /\ lastReq.method = "POST"
    /\ lastReq.status = 200
    /\ lastReq.body = ""
    /\ Len(lastReq.calls) = 1
    /\ lastReq.calls[1].kind = "auth"

\* C9: a POST to a name that is not registered is answered with status 500,
\* calls no callback and changes nothing of the service's state.
C9_UnknownFeed ==
    [][\A n \in FeedNames, d \in Bodies :
          (Request(n, "POST", d) /\ ~is_subscribed(n)) =>
              /\ lastReq'.status = 500
              /\ lastReq'.calls = << >>
              /\ UNCHANGED <<registry, connected, ngrok_public_url,
                             webhook_public_url, webhook_server, webhook_app,
                             listener, tunnels>>]_vars

C9_Witness ==
    /\ lastReq.method = "POST"
    /\ lastReq.status = 500
    /\ lastReq.calls = << >>
    /\ ~is_subscribed(lastReq.name)

\* C10: a request of any other method than POST is answered with status 400
\* and calls no callback, whether or not the name is registered.
C10_NonPostIs400 ==
    [][\A n \in FeedNames, m \in Methods \ {"POST"}, d \in Bodies :
          Request(n, m, d) =>
              /\ lastReq'.status = 400
              /\ lastReq'.calls = << >>]_vars

----------------------------------------------------------------------------
\* Properties of the lifecycle.

\* C11: a call of start_webhooks() made while the service is running (a
\* call has returned True, self.connected is True and the thread is in
\* serve_forever()) returns True and changes nothing else: no thread is
\* launched, no tunnel is opened, and self.connected, the URLs and the
\* server are as they were.  At most one thread is ever launched.
C11_RepeatStartIsNoOp ==
    /\ [](threads <= 1)
    /\ [][(Returned /\ pcF = "idle" /\ connected = "True" /\ pcB = "serving")
             => /\ returns' = Append(returns, TRUE)
                /\ UNCHANGED <<webhook_app, webhook_server, connected,
                               ngrok_public_url, webhook_public_url, pcF, pcB,
                               listener, tunnels, routes, threads, registry>>]_vars

C11_Witness ==
    /\ Len(returns) = 2
    /\ returns[1] = TRUE
    /\ returns[2] = TRUE
    /\ connected = "True"
    /\ pcB = "serving"
    /\ listener = "serving"
    /\ threads = 1

\* A step of stop() (line 207, then lines 208-209).
StopStep == pcF \in {"stop_kill", "stop_server"} /\ pcF' # pcF

\* C12: in every state of the lifecycle stop() first ends the tunnels, then
\* signals the server to stop only if self.webhook_server is set, raises
\* nothing and returns; a stop() that finds no tunnel and a server already
\* signalled (or none) changes nothing.
C12_StopIdempotent ==
    /\ [][pcF' = "stop_server" => (pcF = "stop_kill" /\ tunnels' = {})]_pcF
    /\ [][StopStep =>
             /\ pcF = "stop_kill" =>
                    /\ pcF' = "stop_server"
                    /\ listener' = listener
             /\ pcF = "stop_server" =>
                    /\ pcF' \in {"idle", "force"}
                    /\ tunnels' = tunnels
                    /\ listener' = IF webhook_server # "None"
                                   THEN "stopped" ELSE listener
             /\ UNCHANGED <<webhook_app, webhook_server, connected,
                            ngrok_public_url, webhook_public_url, pcB,
                            routes, returns, threads, registry, raised>>
             /\ (tunnels = {} /\ (webhook_server = "None" \/ listener = "stopped"))
                    => UNCHANGED <<tunnels, listener>>]_vars

\* A second stop() in progress: the server was signalled by an earlier one.
C12_Witness ==
    /\ pcF = "stop_server"
    /\ stop_caller = "user"
    /\ tunnels = {}
    /\ listener = "stopped"
    /\ webhook_server # "None"

\* C13 as claimed: self.connected changes only from None, so it changes at
\* most once and never between True and False.
C13_ChangesOnce ==
    [][connected' # connected => connected = "None"]_vars

\* C13 as amended: self.connected never returns to None once it has left it;
\* it becomes True only at line 174 and False only at line 180 or line 196,
\* whatever its value was.
C13_NeverBackToNone ==
    [][connected' # connected =>
          /\ connected' # "None"
          /\ connected' = "True" => pcB = "set_connected"
          /\ connected' = "False" => (pcB = "final" \/ pcF = "force")]_vars

\* self.connected has gone from None to False (line 196) and then to True
\* (line 174).
C13_Witness ==
    /\ status_at_timeout = "None"
    /\ pcF \in {"return", "idle"}
    /\ connected = "True"

\* C14 as claimed: self.webhook_server is set if and only if self.connected
\* is True.
C14_ServerIffConnected ==
    webhook_server # "None" <=> connected = "True"

\* C14 as amended: whenever self.connected is True self.webhook_server is
\* set (the server exists before self.connected is True and after it is
\* False again).
C14_ConnectedHasServer ==
    connected = "True" => (webhook_server # "None" /\ listener # "none")

\* After stop() the thread has ended with self.connected False and the
\* server is still set.
C14_Witness ==
    /\ webhook_server # "None"
    /\ listener = "stopped"
    /\ pcB = "done"
    /\ connected = "False"
    /\ \E i \in 1..Len(returns) : returns[i]

\* C15: when WSGIServer() raised OSError the background thread does not call
\* self.connect(): connect neither returns a URL nor raises, and no tunnel is
\* open.
C15_NoConnectAfterBindFailure ==
    bind_failed =>
        /\ pcB \notin {"set_url", "if_server"}
        /\ connect_time = -1
        /\ exc = "none"
        /\ tunnels = {}

\* C16: once the first call of start_webhooks() has returned False, no
\* tunnel is open and the server is not serving.
C16_FailedStartLeavesNothing ==
    (Len(returns) >= 1 /\ returns[1] = FALSE) =>
        /\ tunnels = {}
        /\ listener # "serving"
        /\ pcB # "serving"

\* C17: a request to a registered feed is routed to the feed's callbacks
\* only in a state where self.connected is True.
C17_RoutedOnlyWhenConnected ==
    [][\A n \in FeedNames, d \in Bodies :
          (Request(n, "POST", d) /\ lastReq'.calls # << >>)
              => connected = "True"]_vars

\* A step of the foreground thread inside start_webhooks() or stop().
ForegroundStep == pcF' # pcF

\* A step of the background thread in _start_server().
BackgroundStep == pcB' # pcB /\ pcB # "unborn"

\* C18 as claimed: self.connected, the public URLs and self.webhook_server
\* change only in steps of the background thread.
C18_OnlyBackgroundWrites ==
    [][(\/ connected' # connected
        \/ ngrok_public_url' # ngrok_public_url
        \/ webhook_public_url' # webhook_public_url
        \/ webhook_server' # webhook_server)
          => (BackgroundStep /\ ~ForegroundStep)]_vars

\* C18 as amended: the public URLs and self.webhook_server change only in
\* steps of the background thread; self.connected changes in steps of the
\* background thread and in the foreground's line 196, which sets it False.
C18_ForegroundWritesOnlyFalse ==
    [][/\ (\/ ngrok_public_url' # ngrok_public_url
           \/ webhook_public_url' # webhook_public_url
           \/ webhook_server' # webhook_server)
             => (BackgroundStep /\ ~ForegroundStep)
       /\ connected' # connected =>
             \/ BackgroundStep /\ ~ForegroundStep
             \/ /\ ForegroundStep
                /\ pcF = "force"
                /\ connected' = "False"]_vars

\* The foreground has forced self.connected from None to False while the
\* background thread has not yet written it.
C18_Witness ==
    /\ status_at_timeout = "None"
    /\ pcF = "return"
    /\ connected = "False"
    /\ pcB \notin {"done", "serve", "serving"}

\* C19: the first call of start_webhooks(), the one that waits, eventually
\* returns whatever the background thread does, the clock advancing and the
\* foreground thread running (a repeat call returns in its single step).
C19_StartReturns ==
    (pcF = "start_time") ~> (Len(returns) >= 1)

\* start_webhooks() has returned through its timeout branch while the
\* background thread is still inside self.connect().
C19_Witness ==
    /\ Len(returns) >= 1
    /\ status_at_timeout = "None"
    /\ pcB = "connect"
    /\ pcF = "idle"

\* C20: after stop() is called on a running service (start_webhooks() has
\* returned True and self.connected is True), serve_forever() eventually
\* returns, the background thread ends and self.connected is no longer True,
\* the background thread running.
C20_StopEndsThread ==
    (/\ pcF = "stop_kill"
     /\ stop_caller = "user"
     /\ connected = "True"
     /\ Len(returns) >= 1
     /\ returns[1] = TRUE)
        ~> (pcB = "done" /\ connected # "True")

====
